---- MODULE Spec2Model ----
(***************************************************************************)
(* Model of the Monte Carlo tree search engine of src/src/lib.rs (Mct,     *)
(* Node, Children) driven over the tic-tac-toe game of                     *)
(* src/examples/tictactoe.rs.                                              *)
(*                                                                         *)
(* A bit board (u16) is modelled as the set of the positions whose bit is  *)
(* set; `|` is set union and `& mask == mask` is set inclusion.            *)
(* f32 priorities are modelled in fixed point with resolution 1/Scale.     *)
(* For parent visit counts up to 9 two priorities of children that can     *)
(* occur together are either equal (same wins and visits) or differ by     *)
(* more than 4/1000, so the fixed-point order is the f32 order.            *)
(* The counters (c_uint) stay far below 2^32: no addition wraps.           *)
(***************************************************************************)
EXTENDS Integers, Sequences, FiniteSets, TLC

(***************************************************************************)
(* Bounds of the model.                                                    *)
(***************************************************************************)
\* play_out is offered while the root counter is below MaxVisits
MaxVisits == 6

(***************************************************************************)
(* The game: src/examples/tictactoe.rs                                     *)
(***************************************************************************)
NumCells == 9

Positions == 0 .. (NumCells - 1)

LINES ==
    { {0, 1, 2}, {3, 4, 5}, {6, 7, 8},
      {0, 3, 6}, {1, 4, 7}, {2, 5, 8},
      {2, 4, 6}, {0, 4, 8} }

TicTacToe_new == [current |-> {}, next |-> {}, is_current_first |-> TRUE]

can_play_at(g, pos) == pos \notin (g.current \cup g.next)

played_at(g, pos) ==
    [current |-> g.next, next |-> g.current \cup {pos},
     is_current_first |-> ~g.is_current_first]

is_aligned(board) == \E line \in LINES : line \subseteq board

is_full(g) == (g.current \cup g.next) = Positions

\* Game::next for TicTacToe
Game_next(g, action) ==
    [current |-> g.next, next |-> g.current \cup {action},
     is_current_first |-> ~g.is_current_first]

RECURSIVE PushPlayable(_, _, _)
PushPlayable(g, i, v) ==
    IF i >= NumCells THEN v
    ELSE PushPlayable(g, i + 1, IF can_play_at(g, i) THEN Append(v, i) ELSE v)

\* Game::next_actions for TicTacToe: the free positions in increasing order
next_actions(g) == PushPlayable(g, 0, << >>)

\* Game::status for TicTacToe
status(g) ==
    IF is_aligned(g.current) THEN "Win"
    ELSE IF is_aligned(g.next) THEN "Lose"
    ELSE IF is_full(g) THEN "Draw"
    ELSE "Unfinished"

(***************************************************************************)
(* Game::priority (UCB1) in fixed point                                    *)
(***************************************************************************)
Scale == 10000

\* f32::INFINITY: above every finite priority (at most Scale + 3 * Scale)
F32_INFINITY == 1000000000

\* round(ln(n) * Scale * Scale) for n = 1 .. 20
LnTable ==
    << 0, 69314718, 109861229, 138629436, 160943791, 179175947, 194591015,
       207944154, 219722458, 230258509, 239789527, 248490665, 256494936,
       263905733, 270805020, 277258872, 283321334, 289037176, 294443898,
       299573227 >>

ln(n) == LnTable[n]

RECURSIVE SqrtSearch(_, _, _)
\* the largest r in lo .. hi with r * r <= x
SqrtSearch(x, lo, hi) ==
    IF lo >= hi THEN lo
    ELSE LET mid == (lo + hi + 1) \div 2
         IN  IF mid * mid <= x THEN SqrtSearch(x, mid, hi)
             ELSE SqrtSearch(x, lo, mid - 1)

sqrt(x) == SqrtSearch(x, 0, 30000)

\* the bug of giving a child never visited the priority zero
Game_priority_no_infinity(win, vis, parent_visits) ==
    IF vis = 0 THEN 0
    ELSE (win * Scale) \div vis + sqrt((2 * ln(parent_visits)) \div vis)

Game_priority(win, vis, parent_visits) ==
    IF vis = 0 THEN F32_INFINITY
    ELSE (win * Scale) \div vis + sqrt((2 * ln(parent_visits)) \div vis)

(***************************************************************************)
(* Children and Node                                                       *)
(***************************************************************************)
NotExpanded == [tag |-> "NotExpanded", nodes |-> << >>, win |-> FALSE]

Expanded(v) == [tag |-> "Expanded", nodes |-> v, win |-> FALSE]

PlayerWin(b) == [tag |-> "PlayerWin", nodes |-> << >>, win |-> b]

has_expanded(ch) == ch.tag # "NotExpanded"

Node_new(g, icp, act) ==
    [game |-> g, is_curr_player |-> icp, prev_act |-> act,
     wins |-> 0, visits |-> 0, children |-> NotExpanded]

\* the bug of handing the children the flag of their parent
NewChildren_same_flag(g, icp) ==
    LET actions == next_actions(g)
    IN  [i \in 1 .. Len(actions) |->
            Node_new(Game_next(g, actions[i]), icp, actions[i])]

\* the child list built at lib.rs:85 and lib.rs:221
NewChildren(g, icp) ==
    LET actions == next_actions(g)
    IN  [i \in 1 .. Len(actions) |->
            Node_new(Game_next(g, actions[i]), ~icp, actions[i])]

\* the bug of expanding again what has been expanded
expand_again(ch, g, is_current_player) ==
    CASE status(g) = "Win" -> PlayerWin(is_current_player)
      [] status(g) = "Draw" -> PlayerWin(FALSE)
      [] status(g) = "Lose" -> PlayerWin(~is_current_player)
      [] OTHER -> Expanded(NewChildren(g, is_current_player))

\* the bug of leaving Draw to the arm of Unfinished
expand_draw_unfinished(ch, g, is_current_player) ==
    IF has_expanded(ch) THEN ch
    ELSE CASE status(g) = "Win" -> PlayerWin(is_current_player)
           [] status(g) = "Lose" -> PlayerWin(~is_current_player)
           [] OTHER -> Expanded(NewChildren(g, is_current_player))

\* the bug of leaving the field NotExpanded for a drawn game
expand_not_draw(ch, g, is_current_player) ==
    IF has_expanded(ch) THEN ch
    ELSE CASE status(g) = "Win" -> PlayerWin(is_current_player)
           [] status(g) = "Draw" -> NotExpanded
           [] status(g) = "Lose" -> PlayerWin(~is_current_player)
           [] OTHER -> Expanded(NewChildren(g, is_current_player))

\* Children::expand: the value of *self after the call
expand(ch, g, is_current_player) ==
    IF has_expanded(ch) THEN ch
    ELSE CASE status(g) = "Win" -> PlayerWin(is_current_player)
           [] status(g) = "Draw" -> PlayerWin(FALSE)
           [] status(g) = "Lose" -> PlayerWin(~is_current_player)
           [] OTHER -> Expanded(NewChildren(g, is_current_player))

Node_priority(node, parent_visits) ==
    Game_priority(node.wins, node.visits, parent_visits)

RECURSIVE ScanChildren_last_of_equals(_, _, _, _, _)
\* the bug of comparing the priorities with >=
ScanChildren_last_of_equals(nodes, parent_visits, i, prior_child, max_priority) ==
    IF i > Len(nodes) THEN prior_child
    ELSE LET priority == Node_priority(nodes[i], parent_visits)
         IN  IF priority = F32_INFINITY THEN i
             ELSE IF priority >= max_priority
                  THEN ScanChildren_last_of_equals(nodes, parent_visits,
                                                   i + 1, i, priority)
                  ELSE ScanChildren_last_of_equals(nodes, parent_visits,
                                                   i + 1, prior_child,
                                                   max_priority)

RECURSIVE ScanChildren(_, _, _, _, _)
\* the for loop of lib.rs:167-179 (and lib.rs:252-263): the index of the
\* child play_out descends into, given the best index and priority so far
ScanChildren(nodes, parent_visits, i, prior_child, max_priority) ==
    IF i > Len(nodes) THEN prior_child
    ELSE LET priority == Node_priority(nodes[i], parent_visits)
         IN  IF priority = F32_INFINITY THEN i
             ELSE IF priority > max_priority
                  THEN ScanChildren(nodes, parent_visits, i + 1, i, priority)
                  ELSE ScanChildren(nodes, parent_visits, i + 1,
                                    prior_child, max_priority)

\* lib.rs:162-179 and lib.rs:245-263: the selected child of a non-empty list
SelectChild(nodes, parent_visits) ==
    LET max_priority == Node_priority(nodes[1], parent_visits)
    IN  IF max_priority = F32_INFINITY THEN 1
        ELSE ScanChildren(nodes, parent_visits, 2, 1, max_priority)

RECURSIVE Node_play_out_leaf_uncounted(_)
\* the bug of counting the visit only in the Expanded arm: a Leaf keeps
\* its visits while its wins grow
Node_play_out_leaf_uncounted(self) ==
    LET vis == self.visits + 1
        ch  == expand(self.children, self.game, self.is_curr_player)
    IN  CASE ch.tag = "NotExpanded" ->
               [node |-> [self EXCEPT !.visits = vis],
                has_player_win |-> FALSE, rets |-> << >>, path |-> << >>,
                panic |-> "unreachable"]
          [] ch.tag = "PlayerWin" ->
               [node |-> [self EXCEPT !.children = ch,
                              !.wins = IF ch.win THEN @ + 1 ELSE @],
                has_player_win |-> ch.win, rets |-> << ch.win >>,
                path |-> << >>, panic |-> "none"]
          [] OTHER ->
               IF Len(ch.nodes) = 0
               THEN [node |-> [self EXCEPT !.visits = vis, !.children = ch],
                     has_player_win |-> FALSE, rets |-> << >>,
                     path |-> << >>, panic |-> "unwrap on None"]
               ELSE LET k == SelectChild(ch.nodes, vis)
                        r == Node_play_out_leaf_uncounted(ch.nodes[k])
                        has_player_win == r.has_player_win
                        kids == [ch.nodes EXCEPT ![k] = r.node]
                    IN  IF r.panic # "none"
                        THEN [node |-> [self EXCEPT !.visits = vis,
                                            !.children = Expanded(kids)],
                              has_player_win |-> FALSE, rets |-> << >>,
                              path |-> << k >> \o r.path, panic |-> r.panic]
                        ELSE [node |-> [self EXCEPT !.visits = vis,
                                            !.children = Expanded(kids),
                                            !.wins = IF has_player_win
                                                     THEN @ + 1 ELSE @],
                              has_player_win |-> has_player_win,
                              rets |-> << has_player_win >> \o r.rets,
                              path |-> << k >> \o r.path, panic |-> "none"]

RECURSIVE Node_play_out(_)
\* Node::play_out: the node after the call, the value returned, the values
\* returned along the path below (rets[1] is this call's), the indices of
\* the children descended into, and the panic raised if any
Node_play_out(self) ==
    LET vis == self.visits + 1
        ch  == expand(self.children, self.game, self.is_curr_player)
    IN  CASE ch.tag = "NotExpanded" ->
               [node |-> [self EXCEPT !.visits = vis],
                has_player_win |-> FALSE, rets |-> << >>, path |-> << >>,
                panic |-> "unreachable"]
          [] ch.tag = "PlayerWin" ->
               [node |-> [self EXCEPT !.visits = vis, !.children = ch,
                              !.wins = IF ch.win THEN @ + 1 ELSE @],
                has_player_win |-> ch.win, rets |-> << ch.win >>,
                path |-> << >>, panic |-> "none"]
          [] OTHER ->
               IF Len(ch.nodes) = 0
               THEN [node |-> [self EXCEPT !.visits = vis, !.children = ch],
                     has_player_win |-> FALSE, rets |-> << >>,
                     path |-> << >>, panic |-> "unwrap on None"]
               ELSE LET k == SelectChild(ch.nodes, vis)
                        r == Node_play_out(ch.nodes[k])
                        has_player_win == r.has_player_win
                        kids == [ch.nodes EXCEPT ![k] = r.node]
                    IN  IF r.panic # "none"
                        THEN [node |-> [self EXCEPT !.visits = vis,
                                            !.children = Expanded(kids)],
                              has_player_win |-> FALSE, rets |-> << >>,
                              path |-> << k >> \o r.path, panic |-> r.panic]
                        ELSE [node |-> [self EXCEPT !.visits = vis,
                                            !.children = Expanded(kids),
                                            !.wins = IF has_player_win
                                                     THEN @ + 1 ELSE @],
                              has_player_win |-> has_player_win,
                              rets |-> << has_player_win >> \o r.rets,
                              path |-> << k >> \o r.path, panic |-> "none"]

(***************************************************************************)
(* Mct: the engine                                                         *)
(***************************************************************************)
VARIABLES
    game,            \* Mct.game
    is_curr_player,  \* Mct.is_curr_player
    visits,          \* Mct.visits
    children,        \* Mct.children
    call,            \* the last call made on the engine and what it returned
    failure,         \* the message of the panic that ended the process
    initial          \* the arguments Mct::new was called with

vars == << game, is_curr_player, visits, children, call, failure, initial >>

NoAction == -1

NoCall == [op |-> "new", arg |-> NoAction, result |-> NoAction,
           rets |-> << >>, path |-> << >>, playouts |-> 0, commits |-> 0]

RECURSIVE PlayAll(_, _, _)
\* game = game.played_at(action) for each action of moves (tictactoe.rs:147)
PlayAll(g, moves, i) ==
    IF i > Len(moves) THEN g ELSE PlayAll(played_at(g, moves[i]), moves, i + 1)

\* the move sequences that lead to the positions the engine is built on
Openings ==
    { << 0, 1, 2, 4, 3, 5 >>,                \* 3 free cells, any outcome
      << 0, 4, 8, 1 >>,                      \* 5 free cells
      << 0, 4, 1, 2, 5 >>,                   \* 4 free cells
      << 0, 3, 1, 4, 2 >>,                   \* already won, 4 free cells
      << 0, 1, 2, 4, 3, 5, 7, 6, 8 >> }      \* full board, a draw

InitGames == { PlayAll(TicTacToe_new, moves, 1) : moves \in Openings }

\* Mct::new
Mct_new(g, is_current_player) ==
    /\ children = NewChildren(g, is_current_player)
    /\ game = g
    /\ is_curr_player = is_current_player
    /\ visits = 0

Init ==
    /\ \E g \in InitGames, icp \in BOOLEAN :
          /\ Mct_new(g, icp)
          /\ initial = [game |-> g, is_current_player |-> icp]
    /\ call = NoCall
    /\ failure = "none"

\* the bug of a missing return at lib.rs:249: the first child, found never
\* visited, is played out and then played out again as prior_child
Mct_play_out_no_return ==
    /\ failure = "none"
    /\ visits < MaxVisits
    /\ visits' = visits + 1
    /\ UNCHANGED << game, is_curr_player, initial >>
    /\ IF Len(children) = 0
       THEN /\ UNCHANGED << children, failure >>
            /\ call' = [call EXCEPT !.op = "play_out", !.arg = NoAction,
                            !.result = NoAction, !.rets = << >>,
                            !.path = << >>, !.playouts = @ + 1]
       ELSE LET k == SelectChild(children, visits + 1)
                first == Node_play_out(children[k])
                r == IF k = 1 /\ children[1].visits = 0
                     THEN Node_play_out(first.node) ELSE first
            IN  /\ children' = [children EXCEPT ![k] = r.node]
                /\ failure' = r.panic
                /\ call' = [call EXCEPT !.op = "play_out", !.arg = NoAction,
                                !.result = NoAction, !.rets = r.rets,
                                !.path = << k >> \o r.path,
                                !.playouts = @ + 1]

\* Mct::play_out
Mct_play_out ==
    /\ failure = "none"
    /\ visits < MaxVisits
    /\ visits' = visits + 1
    /\ UNCHANGED << game, is_curr_player, initial >>
    /\ IF Len(children) = 0
       THEN /\ UNCHANGED << children, failure >>
            /\ call' = [call EXCEPT !.op = "play_out", !.arg = NoAction,
                            !.result = NoAction, !.rets = << >>,
                            !.path = << >>, !.playouts = @ + 1]
       ELSE LET k == SelectChild(children, visits + 1)
                r == Node_play_out(children[k])
            IN  /\ children' = [children EXCEPT ![k] = r.node]
                /\ failure' = r.panic
                /\ call' = [call EXCEPT !.op = "play_out", !.arg = NoAction,
                                !.result = NoAction, !.rets = r.rets,
                                !.path = << k >> \o r.path,
                                !.playouts = @ + 1]

RECURSIVE FindChild_or_first(_, _, _, _)
\* the bug of falling back to the first child when no child matches
FindChild_or_first(nodes, action, i, node) ==
    IF i > Len(nodes) THEN (IF node = 0 /\ Len(nodes) > 0 THEN 1 ELSE node)
    ELSE FindChild_or_first(nodes, action, i + 1,
                            IF nodes[i].prev_act = action THEN i ELSE node)

RECURSIVE FindChild(_, _, _, _)
\* the for loop of lib.rs:274-278: the index of the last child whose
\* prev_act is action, 0 for None
FindChild(nodes, action, i, node) ==
    IF i > Len(nodes) THEN node
    ELSE FindChild(nodes, action, i + 1,
                   IF nodes[i].prev_act = action THEN i ELSE node)

\* the bug of leaving out self.game = node.game (lib.rs:289)
Mct_next_stale_game(action) ==
    /\ failure = "none"
    /\ UNCHANGED initial
    /\ call' = [call EXCEPT !.op = "next", !.arg = action,
                    !.result = NoAction, !.rets = << >>, !.path = << >>,
                    !.commits = @ + 1]
    /\ LET found == FindChild(children, action, 1, 0)
       IN  IF found = 0
           THEN /\ children' = << >>
                /\ failure' =
                     "action must contained in the return of Game::next_actions()"
                /\ UNCHANGED << game, is_curr_player, visits >>
           ELSE LET node == children[found]
                    ch == expand(node.children, node.game, node.is_curr_player)
                IN  /\ is_curr_player' = ~is_curr_player
                    /\ visits' = node.visits
                    /\ CASE ch.tag = "NotExpanded" ->
                              /\ children' = << >>
                              /\ failure' = "unreachable"
                              /\ UNCHANGED game
                         [] ch.tag = "PlayerWin" ->
                              /\ children' = << >>
                              /\ failure' = "game finished"
                              /\ UNCHANGED game
                         [] OTHER ->
                              /\ children' = ch.nodes
                              /\ UNCHANGED game
                              /\ UNCHANGED failure

\* the bug of leaving out self.visits = node.visits (lib.rs:282)
Mct_next_keep_visits(action) ==
    /\ failure = "none"
    /\ UNCHANGED initial
    /\ call' = [call EXCEPT !.op = "next", !.arg = action,
                    !.result = NoAction, !.rets = << >>, !.path = << >>,
                    !.commits = @ + 1]
    /\ LET found == FindChild(children, action, 1, 0)
       IN  IF found = 0
           THEN /\ children' = << >>
                /\ failure' =
                     "action must contained in the return of Game::next_actions()"
                /\ UNCHANGED << game, is_curr_player, visits >>
           ELSE LET node == children[found]
                    ch == expand(node.children, node.game, node.is_curr_player)
                IN  /\ is_curr_player' = ~is_curr_player
                    /\ UNCHANGED visits
                    /\ CASE ch.tag = "NotExpanded" ->
                              /\ children' = << >>
                              /\ failure' = "unreachable"
                              /\ UNCHANGED game
                         [] ch.tag = "PlayerWin" ->
                              /\ children' = << >>
                              /\ failure' = "game finished"
                              /\ UNCHANGED game
                         [] OTHER ->
                              /\ children' = ch.nodes
                              /\ game' = node.game
                              /\ UNCHANGED failure

\* Mct::next
Mct_next(action) ==
    /\ failure = "none"
    /\ UNCHANGED initial
    /\ call' = [call EXCEPT !.op = "next", !.arg = action,
                    !.result = NoAction, !.rets = << >>, !.path = << >>,
                    !.commits = @ + 1]
    /\ LET found == FindChild(children, action, 1, 0)
       IN  IF found = 0
           THEN /\ children' = << >>
                /\ failure' =
                     "action must contained in the return of Game::next_actions()"
                /\ UNCHANGED << game, is_curr_player, visits >>
           ELSE LET node == children[found]
                    ch == expand(node.children, node.game, node.is_curr_player)
                IN  /\ is_curr_player' = ~is_curr_player
                    /\ visits' = node.visits
                    /\ CASE ch.tag = "NotExpanded" ->
                              /\ children' = << >>
                              /\ failure' = "unreachable"
                              /\ UNCHANGED game
                         [] ch.tag = "PlayerWin" ->
                              /\ children' = << >>
                              /\ failure' = "game finished"
                              /\ UNCHANGED game
                         [] OTHER ->
                              /\ children' = ch.nodes
                              /\ game' = node.game
                              /\ UNCHANGED failure

\* the bug of comparing the win rates with >=
WinRateGreaterOrEqual(w, v, max_w, max_v) == w * max_v >= max_w * v

\* win_rate > max_win_rate (lib.rs:307) for counts below 2^11, where the f32
\* quotients are ordered as the fractions w / v and max_w / max_v are
WinRateGreater(w, v, max_w, max_v) == w * max_v > max_w * v

RECURSIVE BestScan(_, _, _, _, _)
\* the for loop of lib.rs:301-311; the running maximum is max_w / max_v
BestScan(nodes, i, best_child, max_w, max_v) ==
    IF i > Len(nodes) THEN best_child
    ELSE IF nodes[i].visits = 0
         THEN BestScan(nodes, i + 1, best_child, max_w, max_v)
         ELSE IF WinRateGreater(nodes[i].wins, nodes[i].visits, max_w, max_v)
              THEN BestScan(nodes, i + 1, i, nodes[i].wins, nodes[i].visits)
              ELSE BestScan(nodes, i + 1, best_child, max_w, max_v)

\* Mct::best_action on a non-empty child list: the index of best_child
BestChild(nodes) ==
    IF nodes[1].visits = 0
    THEN BestScan(nodes, 2, 1, 0, 1)
    ELSE BestScan(nodes, 2, 1, nodes[1].wins, nodes[1].visits)

\* Mct::best_action
best_action ==
    /\ failure = "none"
    /\ UNCHANGED << game, is_curr_player, visits, children, initial >>
    /\ IF Len(children) = 0
       THEN /\ failure' = "game finished"
            /\ call' = [call EXCEPT !.op = "best_action", !.arg = NoAction,
                            !.result = NoAction, !.rets = << >>,
                            !.path = << >>]
       ELSE /\ UNCHANGED failure
            /\ call' = [call EXCEPT !.op = "best_action", !.arg = NoAction,
                            !.result = children[BestChild(children)].prev_act,
                            !.rets = << >>, !.path = << >>]

Next ==
    \/ Mct_play_out
    \/ \E action \in Positions : Mct_next(action)
    \/ best_action

Spec == Init /\ [][Next]_vars

(***************************************************************************)
(* Vocabulary of the properties                                            *)
(***************************************************************************)
\* the step is a call of Mct::next
CommitStep == call'.commits = call.commits + 1

\* the step is a call of Mct::play_out
PlayOutStep == call'.playouts = call.playouts + 1

RECURSIVE SubNodes(_)
\* every node of the subtrees rooted at the nodes of a list
SubNodes(nodes) ==
    UNION { {nodes[i]} \cup SubNodes(nodes[i].children.nodes) :
              i \in 1 .. Len(nodes) }

Val(b) == IF b THEN 1 ELSE 0

\* twice the Leaf value spec.md 4.2 gives a terminal status
SpecLeafTwice(st) ==
    CASE st = "Win" -> 0
      [] st = "Lose" -> 2
      [] st = "Draw" -> 1
      [] OTHER -> -1

\* nodes are the children Node::new builds for the legal actions of g
FreshChildrenOf(nodes, g) ==
    LET actions == next_actions(g)
    IN  /\ Len(nodes) = Len(actions)
        /\ \A k \in 1 .. Len(nodes) :
              /\ nodes[k].prev_act = actions[k]
              /\ nodes[k].game = Game_next(g, actions[k])
              /\ nodes[k].visits = 0
              /\ nodes[k].wins = 0
              /\ nodes[k].children.tag = "NotExpanded"

(***************************************************************************)
(* C1. Tree reuse: committing the action of a depth-1 child c whose game   *)
(* is not terminal makes the root's visits and game those of c and the     *)
(* root's child list exactly the list c held (the fresh expansion of       *)
(* c.game when c was NotExpanded).                                         *)
(***************************************************************************)
C1_TreeReuse ==
    [][ \A i \in 1 .. Len(children) :
          ( /\ CommitStep
            /\ children[i].prev_act = call'.arg
            /\ status(children[i].game) = "Unfinished" )
          => /\ failure' = "none"
             /\ visits' = children[i].visits
             /\ game' = children[i].game
             /\ IF children[i].children.tag = "NotExpanded"
                THEN FreshChildrenOf(children', children[i].game)
                ELSE /\ children[i].children.tag = "Expanded"
                     /\ children' = children[i].children.nodes ]_vars

\* a commit has promoted a subtree that holds visits and wins
C1_Witness ==
    /\ call.op = "next"
    /\ failure = "none"
    /\ visits >= 2
    /\ \E i \in 1 .. Len(children) :
          children[i].visits > 0 /\ children[i].wins > 0

(***************************************************************************)
(* C2. The caller loop runs to the end of the game: every commit of a      *)
(* legal action of an unfinished root succeeds, the root's game becomes    *)
(* the game after the action, and when that game is terminal the root has  *)
(* no children.                                                            *)
(***************************************************************************)
C2_CallerLoopRuns ==
    [][ \A i \in 1 .. Len(children) :
          ( /\ CommitStep
            /\ status(game) = "Unfinished"
            /\ children[i].prev_act = call'.arg )
          => /\ failure' = "none"
             /\ game' = Game_next(game, call'.arg)
             /\ (status(game') # "Unfinished" => Len(children') = 0) ]_vars

(***************************************************************************)
(* C3. After exactly one play_out on a fresh engine with a legal action:   *)
(* root.visits = 1, one depth-1 child has visits 1 and the others 0, and   *)
(* that child's wins is the Leaf value of its terminal status, or the      *)
(* complement of the value returned by the play_out below it.  Stated for  *)
(* engines built on an unfinished game.                                    *)
(***************************************************************************)
C3_FirstPlayOut ==
    ( /\ status(initial.game) = "Unfinished"
      /\ call.op = "play_out"
      /\ call.playouts = 1
      /\ call.commits = 0
      /\ Len(children) > 0 )
    => /\ visits = 1
       /\ \E k \in 1 .. Len(children) :
             /\ children[k].visits = 1
             /\ \A j \in (1 .. Len(children)) \ {k} : children[j].visits = 0
             /\ IF status(children[k].game) # "Unfinished"
                THEN 2 * children[k].wins =
                        SpecLeafTwice(status(children[k].game))
                ELSE /\ Len(call.rets) >= 2
                     /\ children[k].wins = 1 - Val(call.rets[2])

(***************************************************************************)
(* C4. best_action: with no children it fails fatally; with every child    *)
(* unvisited it returns the first child's action; otherwise it returns the *)
(* action of the first visited child whose wins/visits is the largest      *)
(* among the visited children.                                             *)
(***************************************************************************)
RateLess(a, b) == a.wins * b.visits < b.wins * a.visits

C4_BestAction ==
    call.op = "best_action" =>
      IF Len(children) = 0 THEN failure = "game finished"
      ELSE /\ failure = "none"
           /\ IF \A j \in 1 .. Len(children) : children[j].visits = 0
              THEN call.result = children[1].prev_act
              ELSE \E i \in 1 .. Len(children) :
                     /\ call.result = children[i].prev_act
                     /\ children[i].visits > 0
                     /\ \A j \in 1 .. Len(children) :
                          children[j].visits > 0 =>
                            /\ ~RateLess(children[i], children[j])
                            /\ j < i => RateLess(children[j], children[i])

\* best_action has returned a visited child that is not the first one,
\* with an earlier visited child of lower rate
C4_Witness ==
    /\ call.op = "best_action"
    /\ \E i \in 2 .. Len(children) :
          /\ call.result = children[i].prev_act
          /\ children[i].visits > 0
          /\ children[1].visits > 0

(***************************************************************************)
(* C5. commit of an action no depth-1 child records (in particular on a    *)
(* root without children) fails fatally and promotes nothing: the root's   *)
(* game, visits and perspective flag stay as they were.                    *)
(***************************************************************************)
C5_CommitUnknownAction ==
    [][ ( /\ CommitStep
          /\ \A i \in 1 .. Len(children) : children[i].prev_act # call'.arg )
        => /\ failure' =
                "action must contained in the return of Game::next_actions()"
           /\ game' = game
           /\ visits' = visits
           /\ is_curr_player' = is_curr_player
           /\ Len(children') = 0 ]_vars

\* a commit of an unknown action has failed on a root that had been searched
C5_Witness ==
    /\ call.op = "next"
    /\ failure = "action must contained in the return of Game::next_actions()"
    /\ visits >= 2
    /\ call.arg \notin { a \in Positions : can_play_at(game, a) }

(***************************************************************************)
(* C6. From a fresh engine with N opening actions, N play_out calls give   *)
(* root.visits = N and every depth-1 child at least one visit; up to then  *)
(* no child has been visited twice.                                        *)
(***************************************************************************)
C6_EveryOpeningSampled ==
    LET N == Len(next_actions(initial.game))
    IN  /\ (call.commits = 0 /\ call.playouts = N)
           => /\ visits = N
              /\ \A k \in 1 .. Len(children) : children[k].visits >= 1
        /\ (call.commits = 0 /\ call.playouts <= N)
           => \A k \in 1 .. Len(children) : children[k].visits <= 1

\* the fourth play_out on a fresh engine with four opening actions
C6_Witness ==
    /\ call.commits = 0
    /\ call.playouts = 4
    /\ Len(next_actions(initial.game)) = 4
    /\ \A k \in 1 .. Len(children) : children[k].visits = 1

(***************************************************************************)
(* C7. Frame of play_out: the root counter grows by one; visits grow by    *)
(* one on the nodes of one downward path, where wins grow by at most one   *)
(* and an unexpanded node is expanded; every other node, and the game and  *)
(* action of every node, is unchanged.                                     *)
(***************************************************************************)
RECURSIVE OnPath(_, _)
OnPath(old, new) ==
    /\ new.visits = old.visits + 1
    /\ new.game = old.game
    /\ new.prev_act = old.prev_act
    /\ new.is_curr_player = old.is_curr_player
    /\ new.wins \in {old.wins, old.wins + 1}
    /\ new.children.tag # "NotExpanded"
    /\ old.children.tag # "NotExpanded" => new.children.tag = old.children.tag
    /\ IF new.children.tag = "PlayerWin"
       THEN old.children.tag = "PlayerWin" => new.children = old.children
       ELSE LET before == IF old.children.tag = "NotExpanded"
                          THEN NewChildren(old.game, old.is_curr_player)
                          ELSE old.children.nodes
                after == new.children.nodes
            IN  /\ Len(after) = Len(before)
                /\ \E k \in 1 .. Len(after) :
                      /\ OnPath(before[k], after[k])
                      /\ \A j \in (1 .. Len(after)) \ {k} :
                            after[j] = before[j]

C7_PlayOutFrame ==
    [][ PlayOutStep =>
          /\ visits' = visits + 1
          /\ game' = game
          /\ is_curr_player' = is_curr_player
          /\ Len(children') = Len(children)
          /\ Len(children) > 0 =>
                \E k \in 1 .. Len(children) :
                   /\ OnPath(children[k], children'[k])
                   /\ \A j \in (1 .. Len(children)) \ {k} :
                         children'[j] = children[j] ]_vars

\* a play_out has gone three nodes deep below a root that has siblings
C7_Witness ==
    /\ call.op = "play_out"
    /\ Len(call.path) >= 3
    /\ Len(children) >= 2
    /\ visits >= 2

(***************************************************************************)
(* C8. Negamax: the value an Expanded node returns from play_out is the    *)
(* complement of the value returned by the child it picked.                *)
(***************************************************************************)
C8_Negamax ==
    call.op = "play_out" =>
      \A d \in 1 .. (Len(call.rets) - 1) :
         Val(call.rets[d]) = 1 - Val(call.rets[d + 1])

(***************************************************************************)
(* C9. A terminal node stores the Leaf value 0.0 for Win, 1.0 for Lose and *)
(* 0.5 for Draw, and every playout that reaches it adds that value to its  *)
(* wins.  Stated for engines built on an unfinished game.                  *)
(***************************************************************************)
C9_TerminalValue ==
    \A n \in SubNodes(children) :
       (status(initial.game) = "Unfinished" /\ n.children.tag = "PlayerWin") =>
         /\ 2 * Val(n.children.win) = SpecLeafTwice(status(n.game))
         /\ 2 * n.wins = n.visits * SpecLeafTwice(status(n.game))

(***************************************************************************)
(* C10. Expansion outcome: a PlayerWin (Leaf) node has a terminal game; an *)
(* Expanded node has an unfinished game and one child per legal action in  *)
(* enumeration order; a child not yet visited is as Node::new made it:     *)
(* zero visits, zero wins, NotExpanded.                                    *)
(***************************************************************************)
C10_ExpansionOutcome ==
    \A n \in SubNodes(children) :
       /\ n.children.tag = "PlayerWin" => status(n.game) # "Unfinished"
       /\ n.children.tag = "Expanded" =>
            /\ status(n.game) = "Unfinished"
            /\ Len(n.children.nodes) = Len(next_actions(n.game))
            /\ \A k \in 1 .. Len(n.children.nodes) :
                  n.children.nodes[k].prev_act = next_actions(n.game)[k]
       /\ n.visits = 0 => n.wins = 0 /\ n.children.tag = "NotExpanded"
       /\ n.children.tag = "NotExpanded" => n.visits = 0

\* the tree holds a Leaf, and an Expanded node with a child never visited
C10_Witness ==
    /\ \E n \in SubNodes(children) : n.children.tag = "PlayerWin"
    /\ \E n \in SubNodes(children) :
          /\ n.children.tag = "Expanded"
          /\ \E k \in 1 .. Len(n.children.nodes) :
                n.children.nodes[k].visits = 0

(***************************************************************************)
(* C11. The children field is one-way and expand is idempotent: over every *)
(* play_out and commit a node that is Expanded or PlayerWin keeps its tag, *)
(* its Leaf value and its child list (same length, no statistic lowered),  *)
(* all the way down; and expand applied to such a node returns the field   *)
(* as it is.                                                               *)
(***************************************************************************)
RECURSIVE Kept(_, _)
Kept(old, new) ==
    /\ new.visits >= old.visits
    /\ new.wins >= old.wins
    /\ old.children.tag # "NotExpanded" =>
          /\ new.children.tag = old.children.tag
          /\ new.children.win = old.children.win
          /\ Len(new.children.nodes) = Len(old.children.nodes)
          /\ \A k \in 1 .. Len(old.children.nodes) :
                Kept(old.children.nodes[k], new.children.nodes[k])

KeptList(olds, news) ==
    /\ Len(news) = Len(olds)
    /\ \A k \in 1 .. Len(olds) : Kept(olds[k], news[k])

C11_OneWayExpansion ==
    [][ /\ PlayOutStep => KeptList(children, children')
        /\ \A i \in 1 .. Len(children) :
              ( /\ CommitStep
                /\ failure' = "none"
                /\ children[i].prev_act = call'.arg
                /\ children[i].children.tag # "NotExpanded" )
              => KeptList(children[i].children.nodes, children')
        /\ \A n \in SubNodes(children) :
              has_expanded(n.children) =>
                 expand(n.children, n.game, n.is_curr_player) = n.children
      ]_vars

\* play_out has passed again through an Expanded node and through a Leaf
C11_Witness ==
    /\ call.op = "play_out"
    /\ \E n \in SubNodes(children) :
          /\ n.children.tag = "Expanded"
          /\ n.visits >= 2
          /\ \E k \in 1 .. Len(n.children.nodes) :
                n.children.nodes[k].visits >= 1
    /\ \E n \in SubNodes(children) :
          n.children.tag = "PlayerWin" /\ n.visits >= 2

(***************************************************************************)
(* C12. Structural consistency: while the engine runs, the root and every  *)
(* Expanded node have one child per action of next_actions of their game,  *)
(* in enumeration order, and each child's game is the node's game after    *)
(* the child's action; a commit of a makes the root's game the previous    *)
(* root game after a.                                                      *)
(***************************************************************************)
ChildrenOfGame(nodes, g) ==
    LET actions == next_actions(g)
    IN  /\ Len(nodes) = Len(actions)
        /\ \A k \in 1 .. Len(nodes) :
              /\ nodes[k].prev_act = actions[k]
              /\ nodes[k].game = Game_next(g, actions[k])

Structure ==
    /\ ChildrenOfGame(children, game)
    /\ \A n \in SubNodes(children) :
          n.children.tag = "Expanded" =>
             ChildrenOfGame(n.children.nodes, n.game)

C12_Structure ==
    [][ /\ failure = "none" => Structure
        /\ failure' = "none" => Structure'
        /\ (CommitStep /\ failure' = "none")
              => game' = Game_next(game, call'.arg) ]_vars

\* a commit has succeeded on a searched tree and play_out has run after it
C12_Witness ==
    /\ failure = "none"
    /\ call.op = "play_out"
    /\ call.commits >= 1
    /\ \E n \in SubNodes(children) :
          n.children.tag = "Expanded" /\ Len(n.children.nodes) >= 2

(***************************************************************************)
(* C13. Selection rule, at the root and at every Expanded node on the path *)
(* of a play_out: if a child has visits 0 the first such child is          *)
(* descended into; otherwise the child descended into has a priority       *)
(* greater than that of every earlier child and not less than that of any  *)
(* later child.                                                            *)
(***************************************************************************)
SelectionRule(nodes, parent_visits, k) ==
    IF \E j \in 1 .. Len(nodes) : nodes[j].visits = 0
    THEN /\ nodes[k].visits = 0
         /\ \A j \in 1 .. (k - 1) : nodes[j].visits > 0
    ELSE \A j \in 1 .. Len(nodes) :
            /\ j < k => Node_priority(nodes[j], parent_visits)
                           < Node_priority(nodes[k], parent_visits)
            /\ j > k => Node_priority(nodes[j], parent_visits)
                           <= Node_priority(nodes[k], parent_visits)

RECURSIVE SelectionAlong(_, _, _, _)
\* the rule at depth d of the path, in the tree as it was before the call
SelectionAlong(nodes, parent_visits, path, d) ==
    /\ path[d] \in 1 .. Len(nodes)
    /\ SelectionRule(nodes, parent_visits, path[d])
    /\ LET c == nodes[path[d]]
           below == IF c.children.tag = "NotExpanded"
                    THEN (IF status(c.game) = "Unfinished"
                          THEN NewChildren(c.game, c.is_curr_player)
                          ELSE << >>)
                    ELSE c.children.nodes
       IN  IF Len(below) = 0 THEN d = Len(path)
           ELSE /\ d < Len(path)
                /\ SelectionAlong(below, c.visits + 1, path, d + 1)

C13_SelectionRule ==
    [][ (PlayOutStep /\ Len(children) > 0) =>
           /\ Len(call'.path) >= 1
           /\ SelectionAlong(children, visits + 1, call'.path, 1) ]_vars

\* play_out has gone to a later child of the root by its priority: every
\* child had been visited, and so had a child of the chosen one
C13_Witness ==
    /\ call.op = "play_out"
    /\ Len(call.path) >= 2
    /\ call.path[1] >= 2
    /\ \A k \in 1 .. Len(children) : children[k].visits >= 1
    /\ children[call.path[1]].visits >= 2
    /\ children[call.path[1]].children.tag = "Expanded"
    /\ \A k \in 1 .. Len(children[call.path[1]].children.nodes) :
          children[call.path[1]].children.nodes[k].visits >= 1

(***************************************************************************)
(* C14. Every play_out ends, and the path it descends ends at a terminal   *)
(* node: the last node of the path is a Leaf (PlayerWin) of terminal       *)
(* game, every node above it on the path is Expanded, and the depth of the *)
(* recursion (the length of the path, one returned value per level) is     *)
(* the number of plies from the root's game to that terminal game.         *)
(***************************************************************************)
Cells(g) == g.current \cup g.next

RECURSIVE PathEndsAtLeaf(_, _, _)
PathEndsAtLeaf(nodes, path, d) ==
    /\ path[d] \in 1 .. Len(nodes)
    /\ LET n == nodes[path[d]]
       IN  /\ Cardinality(Cells(n.game)) = Cardinality(Cells(game)) + d
           /\ IF d = Len(path)
              THEN /\ n.children.tag = "PlayerWin"
                   /\ status(n.game) # "Unfinished"
              ELSE /\ n.children.tag = "Expanded"
                   /\ PathEndsAtLeaf(n.children.nodes, path, d + 1)

C14_PlayOutReachesLeaf ==
    (call.op = "play_out" /\ Len(children) > 0) =>
       /\ failure = "none"
       /\ Len(call.path) >= 1
       /\ Len(call.path) <= NumCells - Cardinality(Cells(game))
       /\ Len(call.rets) = Len(call.path)
       /\ PathEndsAtLeaf(children, call.path, 1)

\* a play_out four plies deep, through a root child visited before
C14_Witness ==
    /\ call.op = "play_out"
    /\ Len(call.path) = 4
    /\ \E k \in 1 .. Len(children) :
          children[k].children.tag = "Expanded" /\ children[k].visits >= 2

(***************************************************************************)
(* C15. The panics marked unreachable are never raised: no run of new,     *)
(* play_out and commit ends in the panic for a NotExpanded field seen      *)
(* after expand, nor in the failed unwrap of the first child of an empty   *)
(* Expanded list.                                                          *)
(***************************************************************************)
C15_NoUnreachablePanic ==
    /\ failure \notin {"unreachable", "unwrap on None"}
    /\ \A n \in SubNodes(children) :
          /\ n.visits > 0 => n.children.tag # "NotExpanded"
          /\ n.children.tag = "Expanded" => Len(n.children.nodes) > 0

\* commit has expanded a child never visited, and play_out has then
\* expanded nodes below the new root
C15_Witness ==
    /\ failure = "none"
    /\ call.op = "play_out"
    /\ call.commits >= 1
    /\ call.playouts = 1
    /\ Len(call.path) >= 2

(***************************************************************************)
(* C16. Visit conservation: the root, when it has children, and every      *)
(* Expanded node have visits equal to the sum of the visits of their       *)
(* children; so has the new root right after a commit.                     *)
(***************************************************************************)
RECURSIVE SumVisits(_, _)
SumVisits(nodes, i) ==
    IF i > Len(nodes) THEN 0 ELSE nodes[i].visits + SumVisits(nodes, i + 1)

C16_VisitConservation ==
    /\ Len(children) > 0 => visits = SumVisits(children, 1)
    /\ \A n \in SubNodes(children) :
          n.children.tag = "Expanded" =>
             n.visits = SumVisits(n.children.nodes, 1)

\* a commit has just promoted a child visited more than once, whose
\* visits are spread over several children
C16_Witness ==
    /\ call.op = "next"
    /\ failure = "none"
    /\ visits >= 3
    /\ \E i, j \in 1 .. Len(children) :
          i # j /\ children[i].visits >= 1 /\ children[j].visits >= 1

(***************************************************************************)
(* C17. Win bound: every node has 0 <= wins <= visits, and every Leaf      *)
(* (PlayerWin) node has wins = 0 or wins = visits: the outcome stored at   *)
(* expansion is the one recorded at every visit.                           *)
(***************************************************************************)
C17_WinBound ==
    \A n \in SubNodes(children) :
       /\ 0 <= n.wins
       /\ n.wins <= n.visits
       /\ n.children.tag = "PlayerWin" =>
             /\ n.wins = 0 \/ n.wins = n.visits
             /\ n.wins = n.visits * Val(n.children.win)

\* the tree holds a Leaf visited twice that the player has won, a visited
\* Leaf the player has not won, and an Expanded node with wins in between
C17_Witness ==
    /\ \E n \in SubNodes(children) :
          n.children.tag = "PlayerWin" /\ n.visits >= 2 /\ n.wins = n.visits
    /\ \E n \in SubNodes(children) :
          n.children.tag = "PlayerWin" /\ n.visits >= 1 /\ n.wins = 0
    /\ \E n \in SubNodes(children) :
          n.children.tag = "Expanded" /\ 0 < n.wins /\ n.wins < n.visits

(***************************************************************************)
(* C18. Terminal root: while the engine runs, the root's child list is     *)
(* empty exactly when the root's game is no longer Unfinished; so an       *)
(* engine built on a terminal game has no children.                        *)
(***************************************************************************)
C18_TerminalRoot ==
    failure = "none" =>
       (Len(children) = 0 <=> status(game) # "Unfinished")

(***************************************************************************)
(* C19. Perspective flag: every node's is_curr_player is the negation of   *)
(* its parent's (of the root's for the depth-1 children); after k commits  *)
(* the root's flag is the constructor's argument negated k times; and a    *)
(* terminal node stores PlayerWin(true) exactly when its game is won by    *)
(* the player designated at construction.                                  *)
(***************************************************************************)
\* the designated player is the one who moves first in the game
DesignatedFirst ==
    initial.is_current_player <=> initial.game.is_current_first

\* the player to move in g is the designated player
MoverIsDesignated(g) == g.is_current_first <=> DesignatedFirst

WonByDesignated(g) ==
    \/ status(g) = "Win" /\ MoverIsDesignated(g)
    \/ status(g) = "Lose" /\ ~MoverIsDesignated(g)

NegatedTimes(b, k) == IF k % 2 = 0 THEN b ELSE ~b

C19_PerspectiveFlag ==
    /\ \A k \in 1 .. Len(children) :
          children[k].is_curr_player = ~is_curr_player
    /\ \A n \in SubNodes(children) :
          /\ \A k \in 1 .. Len(n.children.nodes) :
                n.children.nodes[k].is_curr_player = ~n.is_curr_player
          /\ n.children.tag = "PlayerWin" =>
                (n.children.win <=> WonByDesignated(n.game))
    /\ failure = "none" =>
          is_curr_player = NegatedTimes(initial.is_current_player,
                                        call.commits)

\* after an odd number of commits the tree holds a Leaf the designated
\* player has won and a Leaf that player has not won
C19_Witness ==
    /\ failure = "none"
    /\ call.commits % 2 = 1
    /\ is_curr_player = ~initial.is_current_player
    /\ \E n \in SubNodes(children) :
          n.children.tag = "PlayerWin" /\ n.children.win
    /\ \E n \in SubNodes(children) :
          n.children.tag = "PlayerWin" /\ ~n.children.win

====
